---- MODULE Spec2Model ----
(***************************************************************************)
(* Geometric matching of CfdOF: floatEqual, isSameGeometry,                *)
(* findElementInShape and matchFacesToTargetShape of CfdTools.py, their    *)
(* caller processRefinements of CfdMeshTools.py, and setActiveAnalysis and *)
(* getActiveAnalysis of CfdTools.py.                                       *)
(*                                                                         *)
(* Lengths and areas are integers counted in a fixed small unit, so the    *)
(* absolute tolerance 1e-12 is abstol units and the relative tolerance     *)
(* 10*epsilon is the fraction 1/reltolDen.  Indices (i, j, group index,    *)
(* original face index) are 0-based as in the Python code; TLA+ sequences  *)
(* are 1-based, so list[i] is written list[i + 1].                         *)
(***************************************************************************)
EXTENDS Integers, Sequences, FiniteSets, TLC

VARIABLES
    ActiveDocument,         \* FreeCAD.ActiveDocument: the objects of the document, by name
    ref_lists,              \* argument: list of groups, each a list of references (object name, element name)
    shape,                  \* argument: the target shape
    src_face_list,          \* local: resolved references (bf, group index, reference), sorted
    mesh_face_list,         \* local: (face, original index) of the target faces, sorted
    i, j, j_match_start, matching,    \* locals of the sweep
    candidate_mesh_faces,   \* local: per sorted target position, the candidates (i, group index, reference)
    successful_candidates,  \* return value of matchFacesToTargetShape, None before the return
    error,                  \* exception raised by matchFacesToTargetShape, None if none
    aShape, anElement,      \* arguments of findElementInShape
    found_element,          \* return value of findElementInShape
    console,                \* messages written with FreeCAD.Console.PrintError / print
    Objects,                \* FreeCAD.ActiveDocument.Objects, for setActiveAnalysis / getActiveAnalysis
    analysis,               \* argument of the latest setActiveAnalysis: position in Objects, 0 before any call
    active,                 \* return value of getActiveAnalysis: position in Objects, 0 for None
    mr_objs,                \* processRefinements: the mesh refinement objects
    mr_id, sub_id,          \* processRefinements: position in mr_objs and in the references of mr_objs[mr_id]
    ele_length_map,         \* processRefinements (gmsh): self.ele_length_map
    ele_node_map,           \* processRefinements (gmsh): self.ele_node_map
    cf_settings,            \* processRefinements (cfMesh): self.cf_settings
    calls,                  \* the calls the caller has made so far: arguments at entry, and what came back
    vals,                   \* the values handed to the tolerant comparisons
    outcome,                \* what the tolerant comparisons returned
    pc                      \* position: "match", "sweep", "done", "raised" in matchFacesToTargetShape;
                            \* "find", "returned" in findElementInShape; "compare", "compared";
                            \* "analysis" for setActiveAnalysis / getActiveAnalysis;
                            \* "gmsh", "cfmesh", "refine", "meshed" in processRefinements

vars == <<ActiveDocument, ref_lists, shape, src_face_list, mesh_face_list, i, j, j_match_start, matching,
          candidate_mesh_faces, successful_candidates, error, aShape, anElement,
          found_element, console, Objects, analysis, active, mr_objs, mr_id, sub_id,
          ele_length_map, ele_node_map, cf_settings, calls, vals, outcome, pc>>

matchVars == <<ActiveDocument, ref_lists, shape, src_face_list, mesh_face_list, i, j, j_match_start, matching,
               candidate_mesh_faces, successful_candidates, error>>

findVars == <<aShape, anElement, found_element>>

cmpVars == <<vals, outcome>>

analysisVars == <<Objects, analysis, active>>

meshVars == <<mr_objs, mr_id, sub_id, ele_length_map, ele_node_map, cf_settings>>

\* a dictionary without keys
EmptyMap == [key \in {} |-> 0]

\* no analysis object is looked at
NoAnalysis ==
    /\ Objects = <<>>
    /\ analysis = 0
    /\ active = 0

\* processRefinements is not under way
NoMeshing ==
    /\ mr_objs = <<>>
    /\ mr_id = 0
    /\ sub_id = 0
    /\ ele_length_map = EmptyMap
    /\ ele_node_map = EmptyMap
    /\ cf_settings = EmptyMap

None == "None"

(***************************************************************************)
(* Bounds of the model.                                                    *)
(***************************************************************************)
MaxFaces == 2       \* most faces of the target shape
MaxRefs == 2        \* most references over all groups
MaxGroups == 2      \* most reference groups
MaxCalls == 3       \* most calls of findElementInShape a caller makes in a row
MaxPasses == 2      \* most meshing passes, each a call of matchFacesToTargetShape
MaxVal == 18        \* largest magnitude of the values compared

(***************************************************************************)
(* floatEqual                                                              *)
(***************************************************************************)
abstol == 2
reltolDen == 8

Abs(a) == IF a < 0 THEN 0 - a ELSE a

Max(a, b) == IF a >= b THEN a ELSE b

\* variant: the relative tolerance is taken of the first value only
floatEqual_relativeToFirst(a, b) ==
    \/ Abs(a - b) < abstol
    \/ Abs(a - b) * reltolDen <= Abs(a)

floatEqual(a, b) ==
    \/ Abs(a - b) < abstol
    \/ Abs(a - b) * reltolDen <= Max(Abs(a), Abs(b))

(***************************************************************************)
(* isSameGeometry.  The two nested loops count the vertices of shape1 that *)
(* have a tolerantly equal vertex in shape2 (break after the first hit).   *)
(* The fall-through when the vertex counts differ or are zero returns      *)
(* None, which every caller tests as false.                                *)
(***************************************************************************)
sameVertex(vs1, vs2) ==
    floatEqual(vs1.X, vs2.X) /\ floatEqual(vs1.Y, vs2.Y) /\ floatEqual(vs1.Z, vs2.Z)

\* variant: the vertices are compared position by position
same_Vertexes_inOrder(shape1, shape2) ==
    Cardinality({p \in 1..Len(shape1.Vertexes) :
                    p <= Len(shape2.Vertexes) /\ sameVertex(shape1.Vertexes[p], shape2.Vertexes[p])})

same_Vertexes(shape1, shape2) ==
    Cardinality({p \in 1..Len(shape1.Vertexes) :
                    \E q \in 1..Len(shape2.Vertexes) :
                        sameVertex(shape1.Vertexes[p], shape2.Vertexes[q])})

isSameGeometry(shape1, shape2) ==
    IF Len(shape1.Vertexes) = Len(shape2.Vertexes) /\ Len(shape1.Vertexes) > 0
    THEN IF \/ ~floatEqual(shape1.CenterOfMass[1], shape2.CenterOfMass[1])
            \/ ~floatEqual(shape1.CenterOfMass[2], shape2.CenterOfMass[2])
            \/ ~floatEqual(shape1.CenterOfMass[3], shape2.CenterOfMass[3])
         THEN FALSE
         ELSE IF ~floatEqual(shape1.Area, shape2.Area)
              THEN FALSE
              ELSE same_Vertexes(shape1, shape2) = Len(shape1.Vertexes)
    ELSE FALSE

(***************************************************************************)
(* The geometry kernel and the document.  An element has a ShapeType, a    *)
(* CenterOfMass (x, y, z), an Area and a list of Vertexes.                 *)
(***************************************************************************)
Vtx(x, y, z) == [X |-> x, Y |-> y, Z |-> z]

pA == Vtx(0, 0, 0)
pB == Vtx(8, 0, 0)
pC == Vtx(0, 8, 0)

Element(st, com, area, verts) ==
    [ShapeType |-> st, CenterOfMass |-> com, Area |-> area, Vertexes |-> verts]

\* two faces with one centre of mass and different areas, and a third face
FacesA ==
    << Element("Face", <<0, 0, 0>>, 1, <<pA, pB>>),
       Element("Face", <<0, 0, 0>>, 5, <<pA, pB>>),
       Element("Face", <<0, 6, 0>>, 1, <<pA, pB, pC>>) >>

\* faces whose centres of mass are tolerantly equal to their neighbour's only
FacesB ==
    << Element("Face", <<0, 0, 0>>, 1, <<pA, pB>>),
       Element("Face", <<0, 0, 1>>, 1, <<pB, pA>>),
       Element("Face", <<0, 0, 2>>, 1, <<pA, pA>>) >>

\* faces whose centres of mass are apart on two axes each
FacesC ==
    << Element("Face", <<6, 0, 0>>, 1, <<pA, pB>>),
       Element("Face", <<0, 6, 0>>, 1, <<pA, pB>>),
       Element("Face", <<0, 0, 6>>, 1, <<pA, pB>>) >>

\* faces with chain-close centres of mass on z, and a face apart from them
FacesD ==
    << Element("Face", <<0, 0, 0>>, 1, <<pA, pB>>),
       Element("Face", <<0, 0, 1>>, 1, <<pA, pB>>),
       Element("Face", <<0, 0, 2>>, 1, <<pA, pB>>),
       Element("Face", <<6, 0, 0>>, 1, <<pA, pB>>) >>

\* the documents: one object, Part, with a shape of three faces
Documents ==
    {[Part |-> [Shape |-> [Faces |-> fs]]] : fs \in {FacesA, FacesB, FacesC}}

\* FreeCAD.ActiveDocument.getObject(name) is None when there is no such object
hasObject(name) == name \in DOMAIN ActiveDocument

getObject(name) == ActiveDocument[name]

FaceName(k) == "Face" \o ToString(k)

\* obj.Shape.getElement(name) raises Part.OCCError when the shape has no such element
hasElement(shp, name) == \E k \in 1..Len(shp.Faces) : FaceName(k) = name

getElement(shp, name) == shp.Faces[CHOOSE k \in 1..Len(shp.Faces) : FaceName(k) = name]

(***************************************************************************)
(* list.sort with the tolerant key class K (Python 3) or cmp=compFn        *)
(* (Python 2).  The sort asks only whether one key is less than another;   *)
(* for lists this short it takes the leading run (reversing it when it is  *)
(* strictly descending) and inserts the remaining elements one by one at   *)
(* the place a binary search finds, after any element not greater.         *)
(***************************************************************************)
\* K.__eq__
K_eq(a, b) == floatEqual(a, b)

\* K.__ne__
K_ne(a, b) == ~floatEqual(a, b)

\* variant: the values are compared without the tolerance
K_lt_plain(a, b) == a < b

\* K.__lt__ : self.val < other.val and not floatEqual(self.val, other.val)
K_lt(a, b) == a < b /\ ~floatEqual(a, b)

\* K.__gt__
K_gt(a, b) == a > b /\ ~floatEqual(a, b)

\* K.__le__
K_le(a, b) == a < b \/ floatEqual(a, b)

\* K.__ge__
K_ge(a, b) == a > b \/ floatEqual(a, b)

\* the comparison function of the Python 2 sorts
compFn(x, y) ==
    IF floatEqual(x, y) THEN 0
    ELSE IF x < y THEN -1
    ELSE 1

\* the key lambdas: centre of mass of the face at the head of the tuple
key(e, axis) == e[1].CenterOfMass[axis]

RECURSIVE count_run(_, _, _, _)
count_run(s, axis, k, descending) ==
    IF k < Len(s) /\ (K_lt(key(s[k + 1], axis), key(s[k], axis)) = descending)
    THEN count_run(s, axis, k + 1, descending)
    ELSE k

reverse(s) == [p \in 1..Len(s) |-> s[Len(s) + 1 - p]]

RECURSIVE bisect(_, _, _, _, _)
bisect(s, axis, pivot, l, r) ==
    IF l >= r THEN l
    ELSE LET p == l + ((r - l) \div 2)
         IN  IF K_lt(key(pivot, axis), key(s[p + 1], axis))
             THEN bisect(s, axis, pivot, l, p)
             ELSE bisect(s, axis, pivot, p + 1, r)

RECURSIVE binarysort(_, _, _)
binarysort(s, axis, start) ==
    IF start >= Len(s) THEN s
    ELSE LET pivot == s[start + 1]
             l == bisect(s, axis, pivot, 0, start)
         IN  binarysort(SubSeq(s, 1, l) \o <<pivot>> \o SubSeq(s, l + 1, start)
                            \o SubSeq(s, start + 2, Len(s)),
                        axis, start + 1)

sort(s, axis) ==
    IF Len(s) < 2 THEN s
    ELSE LET descending == K_lt(key(s[2], axis), key(s[1], axis))
             n == count_run(s, axis, 2, descending)
             run == IF descending THEN reverse(SubSeq(s, 1, n)) ELSE SubSeq(s, 1, n)
         IN  binarysort(run \o SubSeq(s, n + 1, Len(s)), axis, n)

\* the three successive sorts: by z, then by y, then by x
sortByCentreOfMass(s) == sort(sort(sort(s, 3), 2), 1)

(***************************************************************************)
(* The tolerant comparisons on their own: every comparison of K and compFn *)
(* applied to each ordered pair of three values.                           *)
(***************************************************************************)
Values == (0 - MaxVal)..MaxVal

comparisons(a, b) ==
    [eq |-> K_eq(a, b), ne |-> K_ne(a, b), lt |-> K_lt(a, b), gt |-> K_gt(a, b),
     le |-> K_le(a, b), ge |-> K_ge(a, b), compFn |-> compFn(a, b)]

Compare ==
    /\ pc = "compare"
    /\ outcome' = [p \in 1..3 |-> [q \in 1..3 |-> comparisons(vals[p], vals[q])]]
    /\ pc' = "compared"
    /\ UNCHANGED <<matchVars, findVars, console, calls, vals, analysisVars, meshVars>>

(***************************************************************************)
(* matchFacesToTargetShape: resolving the references                       *)
(***************************************************************************)
\* variant: the group index counts from 1
RECURSIVE flatten_fromOne(_, _)
flatten_fromOne(rl, g) ==
    IF g > Len(rl) THEN <<>>
    ELSE [p \in 1..Len(rl[g]) |-> <<g, rl[g][p]>>] \o flatten_fromOne(rl, g + 1)

\* the references in the order of the two nested loops, with their group index
RECURSIVE flatten(_, _)
flatten(rl, g) ==
    IF g > Len(rl) THEN <<>>
    ELSE [p \in 1..Len(rl[g]) |-> <<g - 1, rl[g][p]>>] \o flatten(rl, g + 1)

unresolved(br) ==
    \/ ~hasObject(br[1])
    \/ ~hasElement(getObject(br[1]).Shape, br[2])

\* the RuntimeError raised for a reference that does not resolve
RuntimeError(br) ==
    IF ~hasObject(br[1])
    THEN "Referenced object '" \o br[1] \o "' not found - object may have been deleted"
    ELSE "Referenced face '" \o br[1] \o ":" \o br[2] \o "' not found - face may have been deleted"

\* variant: the last unresolvable reference is reported
firstUnresolved_last(flat) ==
    CHOOSE p \in 1..Len(flat) :
        /\ unresolved(flat[p][2])
        /\ \A q \in (p + 1)..Len(flat) : ~unresolved(flat[q][2])

\* position in the flattened list at which the loops raise
firstUnresolved(flat) ==
    CHOOSE p \in 1..Len(flat) :
        /\ unresolved(flat[p][2])
        /\ \A q \in 1..(p - 1) : ~unresolved(flat[q][2])

\* src_face_list.append((bf, i, br))
resolved(flat) ==
    [p \in 1..Len(flat) |->
        <<getElement(getObject(flat[p][2][1]).Shape, flat[p][2][2]), flat[p][1], flat[p][2]>>]

\* list(zip(shape.Faces, range(len(shape.Faces))))
zipFaces(faces) == [p \in 1..Len(faces) |-> <<faces[p], p - 1>>]

\* variant: the faces of the shape are sorted in place
Resolve_sortsInPlace ==
    /\ pc = "match"
    /\ LET flat == flatten(ref_lists, 1)
           sorted == sortByCentreOfMass(zipFaces(shape.Faces))
       IN  IF \E p \in 1..Len(flat) : unresolved(flat[p][2])
           THEN /\ error' = RuntimeError(flat[firstUnresolved(flat)][2])
                /\ pc' = "raised"
                /\ UNCHANGED <<src_face_list, mesh_face_list, i, j, j_match_start,
                               matching, candidate_mesh_faces, shape>>
           ELSE /\ src_face_list' = sortByCentreOfMass(resolved(flat))
                /\ mesh_face_list' = [p \in 1..Len(sorted) |-> <<sorted[p][1], p - 1>>]
                /\ shape' = [shape EXCEPT !.Faces = [p \in 1..Len(sorted) |-> sorted[p][1]]]
                /\ i' = 0
                /\ j' = 0
                /\ j_match_start' = 0
                /\ matching' = FALSE
                /\ candidate_mesh_faces' = [p \in 1..Len(shape.Faces) |-> <<>>]
                /\ pc' = "sweep"
                /\ UNCHANGED error
    /\ UNCHANGED <<ActiveDocument, ref_lists, successful_candidates, findVars, console,
                   calls, cmpVars, analysisVars, meshVars>>

\* variant: a reference that does not resolve is skipped
Resolve_skipsUnresolved ==
    /\ pc = "match"
    /\ LET flat == SelectSeq(flatten(ref_lists, 1), LAMBDA e : ~unresolved(e[2]))
       IN  /\ src_face_list' = sortByCentreOfMass(resolved(flat))
           /\ mesh_face_list' = sortByCentreOfMass(zipFaces(shape.Faces))
           /\ i' = 0
           /\ j' = 0
           /\ j_match_start' = 0
           /\ matching' = FALSE
           /\ candidate_mesh_faces' = [p \in 1..Len(shape.Faces) |-> <<>>]
           /\ pc' = "sweep"
           /\ UNCHANGED error
    /\ UNCHANGED <<ActiveDocument, ref_lists, shape, successful_candidates, findVars, console,
                   calls, cmpVars, analysisVars, meshVars>>

Resolve ==
    /\ pc = "match"
    /\ LET flat == flatten(ref_lists, 1)
       IN  IF \E p \in 1..Len(flat) : unresolved(flat[p][2])
           THEN /\ error' = RuntimeError(flat[firstUnresolved(flat)][2])
                /\ pc' = "raised"
                /\ UNCHANGED <<src_face_list, mesh_face_list, i, j, j_match_start,
                               matching, candidate_mesh_faces>>
           ELSE /\ src_face_list' = sortByCentreOfMass(resolved(flat))
                /\ mesh_face_list' = sortByCentreOfMass(zipFaces(shape.Faces))
                /\ i' = 0
                /\ j' = 0
                /\ j_match_start' = 0
                /\ matching' = FALSE
                /\ candidate_mesh_faces' = [p \in 1..Len(shape.Faces) |-> <<>>]
                /\ pc' = "sweep"
                /\ UNCHANGED error
    /\ UNCHANGED <<ActiveDocument, ref_lists, shape, successful_candidates, findVars, console,
                   calls, cmpVars, analysisVars, meshVars>>

(***************************************************************************)
(* matchFacesToTargetShape: the sweep over the two sorted lists            *)
(***************************************************************************)
sweepCmp(bf, mf) ==
    IF floatEqual(bf.CenterOfMass[1], mf.CenterOfMass[1])
    THEN IF floatEqual(bf.CenterOfMass[2], mf.CenterOfMass[2])
         THEN IF floatEqual(bf.CenterOfMass[3], mf.CenterOfMass[3])
              THEN 0
              ELSE (IF bf.CenterOfMass[3] < mf.CenterOfMass[3] THEN -1 ELSE 1)
         ELSE (IF bf.CenterOfMass[2] < mf.CenterOfMass[2] THEN -1 ELSE 1)
    ELSE (IF bf.CenterOfMass[1] < mf.CenterOfMass[1] THEN -1 ELSE 1)

\* while i < len(src_face_list) and j < len(mesh_face_list)
sweepRunning == i < Len(src_face_list) /\ j < Len(mesh_face_list)

\* variant: the source cursor stays when a run of ties ends
nextSource_staysInRun(ii, wasMatching) == IF wasMatching THEN ii ELSE ii + 1

\* i += 1
nextSource(ii, wasMatching) == ii + 1

\* variant: the target cursor goes back to the start of the list
rewind_toStart(jj, start, wasMatching) == IF wasMatching THEN 0 ELSE jj

\* if matching: j = j_match_start
rewind(jj, start, wasMatching) == IF wasMatching THEN start ELSE jj

SweepStep ==
    /\ pc = "sweep"
    /\ sweepRunning
    /\ LET bf == src_face_list[i + 1][1]
           mf == mesh_face_list[j + 1][1]
           cmp == sweepCmp(bf, mf)
       IN  /\ candidate_mesh_faces' =
                 IF cmp = 0
                 THEN [candidate_mesh_faces EXCEPT ![j + 1] =
                          Append(@, <<i, src_face_list[i + 1][2], src_face_list[i + 1][3]>>)]
                 ELSE candidate_mesh_faces
           /\ IF cmp = 0
              THEN /\ j_match_start' = (IF ~matching THEN j ELSE j_match_start)
                   /\ j' = j + 1
                   /\ matching' = TRUE
                   /\ i' = i
              ELSE IF cmp < 0
              THEN /\ i' = nextSource(i, matching)
                   /\ j' = rewind(j, j_match_start, matching)
                   /\ matching' = FALSE
                   /\ UNCHANGED j_match_start
              ELSE /\ j' = j + 1
                   /\ matching' = FALSE
                   /\ UNCHANGED <<i, j_match_start>>
    /\ UNCHANGED <<ActiveDocument, ref_lists, shape, src_face_list, mesh_face_list, successful_candidates,
                   error, findVars, console, calls, cmpVars, analysisVars, meshVars, pc>>

(***************************************************************************)
(* matchFacesToTargetShape: confirming the candidates and returning        *)
(***************************************************************************)
\* variant: every centroid candidate is kept
confirmed_unchecked(bf, mf) == TRUE

\* if isSameGeometry(src_face_list[i][0], mesh_face_list[j][0])
confirmed(bf, mf) == isSameGeometry(bf, mf)

\* variant: the index in the sorted list is used
orig_idx_sorted(mesh, jj) == jj

\* orig_idx = mesh_face_list[j][1]
orig_idx(mesh, jj) == mesh[jj + 1][2]

RECURSIVE confirmLoop(_, _, _, _, _, _)
confirmLoop(src, mesh, cand, succ, jj, kk) ==
    IF jj >= Len(cand) THEN succ
    ELSE IF kk >= Len(cand[jj + 1]) THEN confirmLoop(src, mesh, cand, succ, jj + 1, 0)
    ELSE LET c == cand[jj + 1][kk + 1]
         IN  IF confirmed(src[c[1] + 1][1], mesh[jj + 1][1])
             THEN confirmLoop(src, mesh, cand,
                              [succ EXCEPT ![orig_idx(mesh, jj) + 1] = Append(@, <<c[2], c[3]>>)],
                              jj, kk + 1)
             ELSE confirmLoop(src, mesh, cand, succ, jj, kk + 1)

Confirm ==
    /\ pc = "sweep"
    /\ ~sweepRunning
    /\ successful_candidates' =
           confirmLoop(src_face_list, mesh_face_list, candidate_mesh_faces,
                       [p \in 1..Len(mesh_face_list) |-> <<>>], 0, 0)
    /\ pc' = "done"
    /\ UNCHANGED <<ActiveDocument, ref_lists, shape, src_face_list, mesh_face_list, i, j,
                   j_match_start, matching, candidate_mesh_faces, error, findVars, console,
                   calls, cmpVars, analysisVars, meshVars>>

(***************************************************************************)
(* The calls of matchFacesToTargetShape that are explored                  *)
(***************************************************************************)
SeqsUpTo(S, n) == UNION {[1..m -> S] : m \in 0..n}

\* references to the faces of Part in the document doc
Refs(doc) == {<<"Part", FaceName(k)>> : k \in 1..Len(doc.Part.Shape.Faces)}

\* references that do not resolve: a face Part does not have, and a face of an
\* object that is not in the document
StaleRefs(doc) ==
    {<<"Part", FaceName(Len(doc.Part.Shape.Faces) + 1)>>, <<"Gone", "Face1">>}

RECURSIVE sumTo(_, _)
sumTo(sz, g) == IF g = 0 THEN 0 ELSE sz[g] + sumTo(sz, g - 1)

\* the list flat cut into groups of the sizes sz
grouped(flat, sz) ==
    [g \in 1..Len(sz) |-> SubSeq(flat, sumTo(sz, g - 1) + 1, sumTo(sz, g))]

\* lists of one to MaxGroups groups with at most MaxRefs references from R in all
RefLists(R) ==
    {grouped(fs[1], fs[2]) :
        fs \in {t \in SeqsUpTo(R, MaxRefs) \X SeqsUpTo(0..MaxRefs, MaxGroups) :
                   /\ Len(t[2]) >= 1
                   /\ sumTo(t[2], Len(t[2])) = Len(t[1])}}

\* the geometries of the faces of doc
FaceSet(doc) == {doc.Part.Shape.Faces[k] : k \in 1..Len(doc.Part.Shape.Faces)}

\* target shapes made of faces with those geometries
Shapes(doc) == {[Faces |-> fs] : fs \in SeqsUpTo(FaceSet(doc), MaxFaces)}

\* the state before the call, apart from the arguments
Entry ==
    /\ src_face_list = <<>>
    /\ mesh_face_list = <<>>
    /\ i = 0
    /\ j = 0
    /\ j_match_start = 0
    /\ matching = FALSE
    /\ candidate_mesh_faces = <<>>
    /\ successful_candidates = None
    /\ error = None
    /\ aShape = None
    /\ anElement = None
    /\ found_element = None
    /\ console = <<>>
    /\ vals = <<>>
    /\ outcome = <<>>
    /\ NoAnalysis
    /\ NoMeshing
    /\ pc = "match"

\* calls whose references all resolve
Init ==
    /\ ActiveDocument \in Documents
    /\ ref_lists \in RefLists(Refs(ActiveDocument))
    /\ shape \in Shapes(ActiveDocument)
    /\ calls = <<>>
    /\ Entry

\* calls whose references may be stale, for a target shape of at most one face
InitUnresolved ==
    /\ ActiveDocument \in Documents
    /\ ref_lists \in RefLists(Refs(ActiveDocument) \cup StaleRefs(ActiveDocument))
    /\ shape \in {sh \in Shapes(ActiveDocument) : Len(sh.Faces) <= 1}
    /\ calls = <<>>
    /\ Entry

Next == Resolve \/ SweepStep \/ Confirm

Spec == Init /\ [][Next]_vars

SpecUnresolved == InitUnresolved /\ [][Next]_vars

\* calls with one group of MaxRefs + 1 references to faces with chain-close
\* centres of mass, for a target shape of up to MaxFaces + 1 such faces
InitChain ==
    /\ ActiveDocument = [Part |-> [Shape |-> [Faces |-> FacesD]]]
    /\ ref_lists \in {<<refs>> : refs \in [1..(MaxRefs + 1) -> Refs(ActiveDocument)]}
    /\ shape \in {[Faces |-> fs] : fs \in SeqsUpTo(FaceSet(ActiveDocument), MaxFaces + 1)}
    /\ calls = <<>>
    /\ Entry

SpecChain == InitChain /\ [][Next]_vars

(***************************************************************************)
(* Vocabulary of the properties of matchFacesToTargetShape                 *)
(***************************************************************************)
\* the face a reference resolves to
faceOf(br) == getElement(getObject(br[1]).Shape, br[2])

\* the places (group, position) of the references in ref_lists
RefPlaces == {gp \in (1..Len(ref_lists)) \X (1..MaxRefs) : gp[2] <= Len(ref_lists[gp[1]])}

refAt(gp) == ref_lists[gp[1]][gp[2]]

TargetIndices == 1..Len(shape.Faces)

\* the (group index, reference) pairs that a comparison of every reference
\* with the target face k finds
PairwiseMatches(k) ==
    {<<gp[1] - 1, refAt(gp)>> : gp \in {q \in RefPlaces : isSameGeometry(faceOf(refAt(q)), shape.Faces[k])}}

ResultPairs(k) == {successful_candidates[k][m] : m \in 1..Len(successful_candidates[k])}

\* all centres of mass of the call
Centres ==
    {faceOf(refAt(gp)).CenterOfMass : gp \in RefPlaces} \cup {shape.Faces[k].CenterOfMass : k \in TargetIndices}

\* coordinates are pairwise exactly equal or not tolerantly equal
Separated ==
    \A c \in Centres, d \in Centres, axis \in 1..3 :
        c[axis] = d[axis] \/ ~floatEqual(c[axis], d[axis])

\* C1: with separated centres of mass, the result has for each target face k
\* exactly the (group index, reference) pairs a pairwise isSameGeometry
\* comparison of every reference with face k finds.
C1_PairwiseEquivalence ==
    (pc = "done" /\ Separated) =>
        \A k \in TargetIndices : ResultPairs(k) = PairwiseMatches(k)

\* one group that references exactly the faces of the target shape, in order
IdentityCase ==
    /\ Len(ref_lists) = 1
    /\ Len(ref_lists[1]) = Len(shape.Faces)
    /\ \A k \in TargetIndices : faceOf(ref_lists[1][k]) = shape.Faces[k]

\* no two faces of the target shape are the same geometry
DistinctFaces ==
    \A k \in TargetIndices, m \in TargetIndices :
        k # m => ~isSameGeometry(shape.Faces[k], shape.Faces[m])

\* C2: in the identity case every target face k has exactly its own reference
\* in result[k], once, and no reference to another face (stated for shapes
\* whose faces are pairwise different geometry, which may share a centre of mass).
C2_IdentityCase ==
    (pc = "done" /\ IdentityCase /\ DistinctFaces) =>
        \A k \in TargetIndices : successful_candidates[k] = << <<0, ref_lists[1][k]>> >>

NoSameGeometry ==
    \A gp \in RefPlaces, k \in TargetIndices :
        ~isSameGeometry(faceOf(refAt(gp)), shape.Faces[k])

\* C3: when no referenced face is the same geometry as any target face, every
\* entry of the result is empty, also when centres of mass coincide.
C3_DisjointIsEmpty ==
    (pc = "done" /\ NoSameGeometry) =>
        \A k \in TargetIndices : successful_candidates[k] = <<>>

C3_Witness ==
    /\ pc = "done"
    /\ NoSameGeometry
    /\ Len(ref_lists) = 2 /\ ref_lists[1] # <<>> /\ ref_lists[2] # <<>>
    /\ \E jj \in 1..Len(candidate_mesh_faces) : Len(candidate_mesh_faces[jj]) = 2

\* C4: every pair (g, ref) of result[k] has ref in ref_lists[g] and the face
\* of ref the same geometry as the target face k; a centroid candidate with a
\* different area or different vertices is not in the result.
C4_Soundness ==
    pc = "done" =>
        \A k \in TargetIndices : \A m \in 1..Len(successful_candidates[k]) :
            LET g == successful_candidates[k][m][1]
                ref == successful_candidates[k][m][2]
            IN  /\ g + 1 \in 1..Len(ref_lists)
                /\ \E p \in 1..Len(ref_lists[g + 1]) : ref_lists[g + 1][p] = ref
                /\ isSameGeometry(faceOf(ref), shape.Faces[k])

C4_Witness ==
    /\ pc = "done"
    /\ \E k \in TargetIndices : successful_candidates[k] # <<>>
    /\ \E jj \in 1..Len(candidate_mesh_faces) : \E m \in 1..Len(candidate_mesh_faces[jj]) :
          /\ candidate_mesh_faces[jj][m][2] = 1
          /\ ~isSameGeometry(src_face_list[candidate_mesh_faces[jj][m][1] + 1][1],
                             mesh_face_list[jj][1])

\* the candidates of the sorted position jj that pass isSameGeometry, as pairs
RECURSIVE confirmedOf(_, _)
confirmedOf(jj, cs) ==
    IF cs = <<>> THEN <<>>
    ELSE (IF isSameGeometry(src_face_list[Head(cs)[1] + 1][1], mesh_face_list[jj][1])
          THEN << <<Head(cs)[2], Head(cs)[3]>> >>
          ELSE <<>>) \o confirmedOf(jj, Tail(cs))

\* C5: the result has one entry per face of the shape; the entry at the
\* original index k of a face holds the confirmed matches of that face,
\* wherever the sort put the face, and is empty when it has none.
C5_OriginalOrder ==
    pc = "done" =>
        /\ Len(successful_candidates) = Len(shape.Faces)
        /\ \A jj \in 1..Len(mesh_face_list) :
              LET k == mesh_face_list[jj][2] + 1
              IN  /\ k \in TargetIndices
                  /\ mesh_face_list[jj][1] = shape.Faces[k]
                  /\ successful_candidates[k] = confirmedOf(jj, candidate_mesh_faces[jj])
        /\ \A k \in TargetIndices : PairwiseMatches(k) = {} => successful_candidates[k] = <<>>

C5_Witness ==
    /\ pc = "done"
    /\ \E jj \in 1..Len(mesh_face_list) :
          /\ mesh_face_list[jj][2] # jj - 1
          /\ successful_candidates[mesh_face_list[jj][2] + 1] # <<>>
    /\ \E k \in TargetIndices : successful_candidates[k] = <<>>

\* C6: when two or more references resolve to the same geometry as target
\* face k, all of them are in result[k].
C6_AllDuplicatesReported ==
    (pc = "done" /\ Separated) =>
        \A k \in TargetIndices :
            Cardinality({q \in RefPlaces : isSameGeometry(faceOf(refAt(q)), shape.Faces[k])}) >= 2
                => PairwiseMatches(k) \subseteq ResultPairs(k)

AnyUnresolved == \E gp \in RefPlaces : unresolved(refAt(gp))

\* the first place, in group order and then list order, of a reference that does not resolve
FirstUnresolvedPlace ==
    CHOOSE gp \in RefPlaces :
        /\ unresolved(refAt(gp))
        /\ \A q \in RefPlaces :
              unresolved(refAt(q)) => (gp[1] < q[1] \/ (gp[1] = q[1] /\ gp[2] <= q[2]))

\* C7 (as stated): when one reference does not resolve, the call still returns
\* a result in which the other references are matched.
C7_OthersStillMatched ==
    (pc \in {"done", "raised"} /\ AnyUnresolved) =>
        /\ pc = "done"
        /\ \A k \in TargetIndices : \A gp \in RefPlaces :
              (~unresolved(refAt(gp)) /\ isSameGeometry(faceOf(refAt(gp)), shape.Faces[k]))
                  => <<gp[1] - 1, refAt(gp)>> \in ResultPairs(k)

\* C7 (amended): when a reference does not resolve, the call raises a
\* RuntimeError naming the first such reference in group order, then list
\* order, and nothing is swept or returned: no other reference is matched.
C7_RaisesForFirstUnresolved ==
    pc = "raised" =>
        /\ AnyUnresolved
        /\ error = RuntimeError(refAt(FirstUnresolvedPlace))
        /\ candidate_mesh_faces = <<>>
        /\ successful_candidates = None

C7_Witness ==
    /\ pc = "raised"
    /\ Len(ref_lists) = 2
    /\ \E gp \in RefPlaces : \E k \in TargetIndices :
          /\ ~unresolved(refAt(gp))
          /\ isSameGeometry(faceOf(refAt(gp)), shape.Faces[k])
    /\ error = "Referenced face 'Part:Face4' not found - face may have been deleted"

\* C8: once the references have been gone through, a call with a reference to
\* an object the document does not have, or to a sub-element the object's shape
\* does not have, has raised; it never sweeps or returns a result.
C8_UnresolvedRaises ==
    (pc # "match" /\ AnyUnresolved) => (pc = "raised" /\ error # None)

C8_Witness ==
    /\ pc = "raised"
    /\ error = "Referenced object 'Gone' not found - object may have been deleted"
    /\ \E gp \in RefPlaces : ~unresolved(refAt(gp)) /\ gp[2] = 1 /\ Len(ref_lists[gp[1]]) = 2

(***************************************************************************)
(* findElementInShape                                                      *)
(***************************************************************************)
\* variant: the loop goes on after a hit, so the last hit is returned
RECURSIVE scan_last(_, _, _)
scan_last(list, element, index) ==
    IF index >= Len(list) THEN -1
    ELSE LET later == scan_last(list, element, index + 1)
         IN  IF later >= 0 THEN later
             ELSE IF isSameGeometry(list[index + 1], element) THEN index
             ELSE -1

\* for index, x in enumerate(list): if isSameGeometry(x, anElement): the
\* index of the first hit, -1 when the loop ends without one
RECURSIVE scan(_, _, _)
scan(list, element, index) ==
    IF index >= Len(list) THEN -1
    ELSE IF isSameGeometry(list[index + 1], element) THEN index
    ELSE scan(list, element, index + 1)

\* ele = ele_st + str(index + 1)
ele(ele_st, index) == ele_st \o ToString(index + 1)

\* str() of a shape object
str(obj) == "<" \o obj.ShapeType \o " object>"

\* what is written when no solid matches
solidNotFound(target, element) ==
    <<"Solid " \o str(element) \o " not found in: " \o str(target) \o "\n">>
    \o (IF element.ShapeType = "Solid" /\ target.ShapeType = "Solid"
        THEN <<"We have been searching for a Solid in a Solid and we have not found it.">>
        ELSE <<>>)

\* variant: the last branch writes nothing
unsupported_silent(ele_st) == <<>>

\* elif ele_st == 'Compound': PrintError('Compound is not supported.\n')
unsupported(ele_st) ==
    IF ele_st = "Compound" THEN <<"Compound is not supported.\n">> ELSE <<>>

\* variant: every candidate is looked for among the faces
subElements_faces(target, ele_st) ==
    IF ele_st \in {"Solid", "CompSolid", "Face", "Shell", "Edge", "Wire", "Vertex"}
    THEN target.Faces
    ELSE <<>>

\* the list the branch taken for ele_st goes through; the Compound branch
\* and a shape type without a branch go through none
subElements(target, ele_st) ==
    IF ele_st \in {"Solid", "CompSolid"} THEN target.Solids
    ELSE IF ele_st \in {"Face", "Shell"} THEN target.Faces
    ELSE IF ele_st \in {"Edge", "Wire"} THEN target.Edges
    ELSE IF ele_st = "Vertex" THEN target.Vertexes
    ELSE <<>>

\* the value returned and the messages written
findElementInShape(target, element) ==
    LET ele_st == element.ShapeType
        list == subElements(target, ele_st)
        index == scan(list, element, 0)
    IN  IF index >= 0
        THEN [ele |-> ele(ele_st, index), printed |-> <<>>]
        ELSE [ele |-> None,
              printed |-> IF ele_st \in {"Solid", "CompSolid"} THEN solidNotFound(target, element)
                          ELSE IF ele_st \in {"Face", "Shell", "Edge", "Wire", "Vertex"} THEN <<>>
                          ELSE unsupported(ele_st)]

\* variant: a result found by an earlier call is returned again
FindElementInShape_cached ==
    /\ pc = "find"
    /\ found_element' = IF found_element # None THEN found_element
                        ELSE findElementInShape(aShape, anElement).ele
    /\ console' = console \o findElementInShape(aShape, anElement).printed
    /\ pc' = "returned"
    /\ UNCHANGED <<matchVars, aShape, anElement, calls, cmpVars, analysisVars, meshVars>>

FindElementInShape ==
    /\ pc = "find"
    /\ found_element' = findElementInShape(aShape, anElement).ele
    /\ console' = console \o findElementInShape(aShape, anElement).printed
    /\ pc' = "returned"
    /\ UNCHANGED <<matchVars, aShape, anElement, calls, cmpVars, analysisVars, meshVars>>

(***************************************************************************)
(* The calls of findElementInShape that are explored                       *)
(***************************************************************************)
sA == Element("Solid", <<0, 0, 0>>, 1, <<pA, pB>>)
sB == Element("Solid", <<0, 0, 0>>, 5, <<pA, pB>>)
eA == Element("Edge", <<4, 0, 0>>, 0, <<pA, pB>>)
eB == Element("Edge", <<0, 4, 0>>, 0, <<pA, pC>>)
vA == Element("Vertex", <<0, 0, 0>>, 0, <<pA>>)
vB == Element("Vertex", <<8, 0, 0>>, 0, <<pB>>)
cA == Element("Compound", <<0, 0, 0>>, 6, <<pA, pB>>)

\* the sub-elements other than faces that a target shape has
SubShapes ==
    { [ShapeType |-> "Solid", Solids |-> <<sA>>, Edges |-> <<eA, eB>>, Vertexes |-> <<vA, vB>>],
      [ShapeType |-> "Compound", Solids |-> <<sB, sA>>, Edges |-> <<eB>>, Vertexes |-> <<vB>>],
      [ShapeType |-> "Shell", Solids |-> <<>>, Edges |-> <<>>, Vertexes |-> <<>>] }

\* the face geometries of all documents
AllFaces == UNION {FaceSet(doc) : doc \in Documents}

TargetShapes ==
    {[ShapeType |-> sub.ShapeType, Solids |-> sub.Solids, Faces |-> fs,
      Edges |-> sub.Edges, Vertexes |-> sub.Vertexes] :
        sub \in SubShapes, fs \in SeqsUpTo(AllFaces, MaxFaces)}

\* the orders in which the vertices of an element can be listed
Orders(verts) ==
    {[p \in 1..Len(verts) |-> verts[f[p]]] :
        f \in {g \in [1..Len(verts) -> 1..Len(verts)] :
                  \A a \in 1..Len(verts), b \in 1..Len(verts) : a # b => g[a] # g[b]}}

retyped(e, st) == [e EXCEPT !.ShapeType = st]

Candidates ==
    {[retyped(t[1], t[2]) EXCEPT !.Vertexes = t[3]] :
        t \in {u \in AllFaces \X {"Face", "Shell"} \X UNION {Orders(f.Vertexes) : f \in AllFaces} :
                  u[3] \in Orders(u[1].Vertexes)}}
    \cup {retyped(e, st) : e \in {sA, sB}, st \in {"Solid", "CompSolid"}}
    \cup {retyped(e, st) : e \in {eA, eB}, st \in {"Edge", "Wire"}}
    \cup {vA, vB, cA}

InitFind ==
    /\ ActiveDocument = [Part |-> [Shape |-> [Faces |-> FacesA]]]
    /\ aShape \in TargetShapes
    /\ anElement \in Candidates
    /\ found_element = None
    /\ console = <<>>
    /\ calls = <<>>
    /\ vals = <<>>
    /\ outcome = <<>>
    /\ NoAnalysis
    /\ NoMeshing
    /\ pc = "find"
    /\ ref_lists = <<>>
    /\ shape = [Faces |-> <<>>]
    /\ src_face_list = <<>>
    /\ mesh_face_list = <<>>
    /\ i = 0
    /\ j = 0
    /\ j_match_start = 0
    /\ matching = FALSE
    /\ candidate_mesh_faces = <<>>
    /\ successful_candidates = None
    /\ error = None

NextFind == FindElementInShape

SpecFind == InitFind /\ [][NextFind]_vars

TakenFrom(k) ==
    /\ anElement.ShapeType = "Face"
    /\ anElement.CenterOfMass = aShape.Faces[k].CenterOfMass
    /\ anElement.Area = aShape.Faces[k].Area
    /\ anElement.Vertexes \in Orders(aShape.Faces[k].Vertexes)

\* C10 (as stated): a face taken from the shape at 0-based index k, its
\* vertices in any order, is identified as "Face" followed by k + 1.
C10_RoundTrip ==
    pc = "returned" =>
        \A k \in 1..Len(aShape.Faces) : TakenFrom(k) => found_element = "Face" \o ToString(k)

\* C10 (amended): a face taken from the shape at 0-based index k, its vertices
\* in any order, is identified as "Face" followed by m + 1 for the smallest
\* index m whose face is the same geometry; m <= k, and m = k when no face
\* before index k is the same geometry.
C10_RoundTripToFirstSame ==
    pc = "returned" =>
        \A k \in 1..Len(aShape.Faces) :
            TakenFrom(k) =>
                \E m \in 1..k :
                    /\ found_element = "Face" \o ToString(m)
                    /\ isSameGeometry(aShape.Faces[m], anElement)
                    /\ \A n \in 1..(m - 1) : ~isSameGeometry(aShape.Faces[n], anElement)
                    /\ (\A n \in 1..(k - 1) : ~isSameGeometry(aShape.Faces[n], anElement)) => m = k

C10_Witness ==
    /\ pc = "returned"
    /\ \E k \in 2..Len(aShape.Faces) :
          /\ TakenFrom(k)
          /\ anElement.Vertexes # aShape.Faces[k].Vertexes
          /\ Len(anElement.Vertexes) = 3
          /\ found_element = "Face" \o ToString(k)

(***************************************************************************)
(* Properties of the sorts and of the sweep                                *)
(***************************************************************************)
\* C21: after the three sorts, no element of src_face_list or of
\* mesh_face_list compares GREATER, by the comparison of the sweep, than an
\* element later in the same list.
C21_SortedForTheSweep ==
    pc \in {"sweep", "done"} =>
        /\ \A p \in 1..Len(src_face_list), q \in 1..Len(src_face_list) :
              p < q => sweepCmp(src_face_list[p][1], src_face_list[q][1]) # 1
        /\ \A p \in 1..Len(mesh_face_list), q \in 1..Len(mesh_face_list) :
              p < q => sweepCmp(mesh_face_list[p][1], mesh_face_list[q][1]) # 1

\* the positions of the source elements recorded for the sorted target position jj
recordedFor(jj) == {candidate_mesh_faces[jj][m][1] : m \in 1..Len(candidate_mesh_faces[jj])}

\* C22: when the sweep is over, two consecutive source elements whose centres
\* of mass both tie with a target face are both recorded as candidates for it,
\* also when the face is in the last run of the sorted target list.
C22_BothRecordedForTheRun ==
    (pc = "done" /\ Separated) =>
        \A p \in 1..(Len(src_face_list) - 1), jj \in 1..Len(mesh_face_list) :
            (/\ sweepCmp(src_face_list[p][1], mesh_face_list[jj][1]) = 0
             /\ sweepCmp(src_face_list[p + 1][1], mesh_face_list[jj][1]) = 0)
            => {p - 1, p} \subseteq recordedFor(jj)

\* three source elements with pairwise distinct, chain-close centres of mass
ChainCloseSources ==
    \E a \in 1..Len(src_face_list), b \in 1..Len(src_face_list), c \in 1..Len(src_face_list) :
        LET ca == src_face_list[a][1].CenterOfMass
            cb == src_face_list[b][1].CenterOfMass
            cc == src_face_list[c][1].CenterOfMass
        IN  /\ ca # cb /\ cb # cc /\ ca # cc
            /\ \A axis \in 1..3 : floatEqual(ca[axis], cb[axis]) /\ floatEqual(cb[axis], cc[axis])
            /\ \E axis \in 1..3 : ~floatEqual(ca[axis], cc[axis])

\* C23: with chain-close source elements, a sweep that has gone through all
\* source elements has recorded every (source element, target face) pair whose
\* centres of mass are floatEqual on all three axes.
C23_NoCandidateLost ==
    (pc = "done" /\ ChainCloseSources /\ i = Len(src_face_list)) =>
        \A p \in 1..Len(src_face_list), jj \in 1..Len(mesh_face_list) :
            sweepCmp(src_face_list[p][1], mesh_face_list[jj][1]) = 0 => p - 1 \in recordedFor(jj)

\* what is left of the sweep: decreases with every iteration
remaining == (Len(src_face_list) - i) * (Len(mesh_face_list) + 1) + (Len(mesh_face_list) - j)

\* C24: every iteration of the sweep advances i or j by one, i never
\* decreases, j moves backwards only to j_match_start (never greater than j)
\* and only when i advances; what is left of the sweep decreases and is never
\* negative, so the sweep ends.
C24_SweepTerminates ==
    [][(pc = "sweep" /\ pc' = "sweep") =>
           /\ i' = i \/ i' = i + 1
           /\ i' = i + 1 \/ j' = j + 1
           /\ j_match_start <= j
           /\ j' < j => (i' = i + 1 /\ j' = j_match_start)
           /\ remaining' < remaining
           /\ remaining' >= 0]_vars

\* the target cursor has gone back over a run and the sweep has ended
C24_Witness ==
    /\ pc = "done"
    /\ i = Len(src_face_list)
    /\ i >= 2
    /\ j_match_start >= 1
    /\ \E jj \in 1..Len(candidate_mesh_faces) : Len(candidate_mesh_faces[jj]) >= 2

\* how often x is in the list
count(list, x) == Cardinality({m \in 1..Len(list) : list[m] = x})

\* C25: no source position is recorded twice for a target face, and a
\* reference is in result[k] for its group no more often than the group lists it.
C25_RecordedAtMostOnce ==
    /\ pc \in {"sweep", "done"} =>
          \A jj \in 1..Len(candidate_mesh_faces) :
              Cardinality(recordedFor(jj)) = Len(candidate_mesh_faces[jj])
    /\ pc = "done" =>
          \A k \in TargetIndices : \A m \in 1..Len(successful_candidates[k]) :
              LET e == successful_candidates[k][m]
              IN  count(successful_candidates[k], e) <= count(ref_lists[e[1] + 1], e[2])

\* a reference listed twice is twice in the result of a face in a run that
\* the target cursor went back over
C25_Witness ==
    /\ pc = "done"
    /\ \E k \in TargetIndices :
          /\ Len(successful_candidates[k]) = 2
          /\ successful_candidates[k][1] = successful_candidates[k][2]
    /\ Len(shape.Faces) = 2
    /\ i = Len(src_face_list)

(***************************************************************************)
(* Callers that call again.  processRefinements calls findElementInShape   *)
(* for each referenced sub-element and matchFacesToTargetShape once for    *)
(* each meshing pass; calls keeps, for each call made, the arguments at    *)
(* entry and, once the call is over, what it gave back.                    *)
(***************************************************************************)
\* ref_lists without the reference at place gp = (group, position)
removeAt(rl, gp) ==
    [rl EXCEPT ![gp[1]] = SubSeq(@, 1, gp[2] - 1) \o SubSeq(@, gp[2] + 1, Len(@))]

placesOf(rl) == {gp \in (1..Len(rl)) \X (1..MaxRefs) : gp[2] <= Len(rl[gp[1]])}

matchCall(rl, sh) == [ref_lists |-> rl, shape |-> sh, result |-> <<>>, error |-> None]

\* the last call of calls, with what it gave back
matchReturned ==
    [calls EXCEPT ![Len(calls)] =
        [@ EXCEPT !.result = IF pc = "done" THEN successful_candidates ELSE <<>>,
                  !.error = error]]

\* the next pass: the same reference groups, or the groups without one reference
CallAgain ==
    /\ pc \in {"done", "raised"}
    /\ Len(calls) < MaxPasses
    /\ \E rl \in {ref_lists} \cup {removeAt(ref_lists, gp) : gp \in placesOf(ref_lists)} :
          /\ ref_lists' = rl
          /\ calls' = Append(matchReturned, matchCall(rl, shape))
    /\ src_face_list' = <<>>
    /\ mesh_face_list' = <<>>
    /\ i' = 0
    /\ j' = 0
    /\ j_match_start' = 0
    /\ matching' = FALSE
    /\ candidate_mesh_faces' = <<>>
    /\ successful_candidates' = None
    /\ error' = None
    /\ pc' = "match"
    /\ UNCHANGED <<ActiveDocument, shape, findVars, console, cmpVars, analysisVars, meshVars>>

\* the first pass has no group without a reference; a later pass may
InitCalls ==
    /\ ActiveDocument \in Documents
    /\ ref_lists \in {rl \in RefLists(Refs(ActiveDocument)) : \A g \in 1..Len(rl) : rl[g] # <<>>}
    /\ shape \in Shapes(ActiveDocument)
    /\ calls = <<matchCall(ref_lists, shape)>>
    /\ Entry

NextCalls == Resolve \/ SweepStep \/ Confirm \/ CallAgain

SpecCalls == InitCalls /\ [][NextCalls]_vars

findCall(target, element) == [aShape |-> target, anElement |-> element, found_element |-> None]

\* the last call of calls, with what it gave back
findReturned == [calls EXCEPT ![Len(calls)] = [@ EXCEPT !.found_element = found_element]]

\* the target shapes and the candidates of the repeated calls
CallShapes ==
    {t \in TargetShapes :
        /\ t.ShapeType \in {"Solid", "Compound"}
        /\ t.Faces \in {<<FacesA[1]>>, <<FacesB[3]>>}}

CallElements == {FacesA[1], FacesB[2], sA, vB, cA}

\* the next sub-element of the loop over the references
FindAgain ==
    /\ pc = "returned"
    /\ Len(calls) < MaxCalls
    /\ \E target \in CallShapes, element \in CallElements :
          /\ aShape' = target
          /\ anElement' = element
          /\ calls' = Append(findReturned, findCall(target, element))
    /\ pc' = "find"
    /\ UNCHANGED <<matchVars, found_element, console, cmpVars, analysisVars, meshVars>>

InitFindCalls ==
    /\ ActiveDocument = [Part |-> [Shape |-> [Faces |-> FacesA]]]
    /\ aShape \in CallShapes
    /\ anElement \in CallElements
    /\ calls = <<findCall(aShape, anElement)>>
    /\ found_element = None
    /\ console = <<>>
    /\ vals = <<>>
    /\ outcome = <<>>
    /\ NoAnalysis
    /\ NoMeshing
    /\ pc = "find"
    /\ ref_lists = <<>>
    /\ shape = [Faces |-> <<>>]
    /\ src_face_list = <<>>
    /\ mesh_face_list = <<>>
    /\ i = 0
    /\ j = 0
    /\ j_match_start = 0
    /\ matching = FALSE
    /\ candidate_mesh_faces = <<>>
    /\ successful_candidates = None
    /\ error = None

NextFindCalls == FindElementInShape \/ FindAgain

SpecFindCalls == InitFindCalls /\ [][NextFindCalls]_vars

C16_UnmatchedIsInert ==
    pc = "done" =>
        \A n \in 1..(Len(calls) - 1) : \A gp \in placesOf(calls[n].ref_lists) :
            LET c == calls[n]
                br == c.ref_lists[gp[1]][gp[2]]
            IN  (/\ removeAt(c.ref_lists, gp) = ref_lists
                 /\ \A k \in TargetIndices : ~isSameGeometry(faceOf(br), shape.Faces[k]))
                => /\ c.error = None
                   /\ \A k \in TargetIndices : \A m \in 1..Len(c.result[k]) : c.result[k][m][2] # br
                   /\ c.result = successful_candidates

\* C17: when a call is over, ref_lists and shape are what they were at entry,
\* and the call has given back what every earlier call with the same
\* ref_lists, shape and document gave back.
C17_InputsKeptAndRepeatable ==
    pc \in {"done", "raised"} =>
        /\ ref_lists = calls[Len(calls)].ref_lists
        /\ shape = calls[Len(calls)].shape
        /\ \A n \in 1..(Len(calls) - 1) :
              (calls[n].ref_lists = ref_lists /\ calls[n].shape = shape)
                  => /\ calls[n].error = error
                     /\ pc = "done" => calls[n].result = successful_candidates

\* a second call with the same arguments, for a shape whose faces the sort
\* reorders, after a first call that matched a face
C17_Witness ==
    /\ pc = "done"
    /\ Len(calls) >= 2
    /\ calls[1].ref_lists = ref_lists
    /\ Len(ref_lists) = 2
    /\ \E k \in TargetIndices : calls[1].result[k] # <<>>
    /\ \E jj \in 1..Len(mesh_face_list) : mesh_face_list[jj][2] # jj - 1

(***************************************************************************)
(* Vocabulary of the properties of findElementInShape                      *)
(***************************************************************************)
\* the sub-elements of the target that belong to the candidate's type family
FamilyList ==
    CASE anElement.ShapeType \in {"Solid", "CompSolid"} -> aShape.Solids
      [] anElement.ShapeType \in {"Face", "Shell"} -> aShape.Faces
      [] anElement.ShapeType \in {"Edge", "Wire"} -> aShape.Edges
      [] anElement.ShapeType = "Vertex" -> aShape.Vertexes
      [] OTHER -> <<>>

\* positions in the family list of the sub-elements that are the same geometry as the candidate
FamilyMatches == {k \in 1..Len(FamilyList) : isSameGeometry(FamilyList[k], anElement)}

least(S) == CHOOSE k \in S : \A m \in S : k <= m

\* C12: findElementInShape returns the candidate's shape type followed by the
\* 1-based index of the first sub-element of the selected list that is the same
\* geometry as the candidate, and None exactly when no sub-element of it is.
C12_FirstMatchInOrder ==
    pc = "returned" =>
        /\ (found_element = None) = (FamilyMatches = {})
        /\ FamilyMatches # {} =>
              found_element = anElement.ShapeType \o ToString(least(FamilyMatches))

\* two sub-elements match and the later one is not the one returned
C12_Witness ==
    /\ pc = "returned"
    /\ FamilyMatches = {1, 2}
    /\ aShape.Faces[1] # aShape.Faces[2]
    /\ found_element = "Shell1"

\* C13: isSameGeometry is symmetric: a sub-element is the same geometry as the
\* candidate exactly when the candidate is the same geometry as the sub-element.
C13_Symmetric ==
    pc = "returned" =>
        \A k \in 1..Len(FamilyList) :
            isSameGeometry(FamilyList[k], anElement) = isSameGeometry(anElement, FamilyList[k])

\* C18: an identifier returned is the candidate's shape type followed by the
\* 1-based position, in the list of the candidate's own type family, of a
\* sub-element that is the same geometry; a sub-element of another family
\* never yields an identifier.
C18_OwnFamilyOnly ==
    pc = "returned" =>
        /\ found_element # None =>
              \E k \in 1..Len(FamilyList) :
                  /\ found_element = anElement.ShapeType \o ToString(k)
                  /\ isSameGeometry(FamilyList[k], anElement)
        /\ FamilyMatches = {} => found_element = None

\* a solid found at position 2 of the solids while face 1 is the same geometry
C18_Witness ==
    /\ pc = "returned"
    /\ anElement.ShapeType = "CompSolid"
    /\ found_element = "CompSolid2"
    /\ Len(aShape.Faces) >= 1
    /\ isSameGeometry(aShape.Faces[1], anElement)

\* the acceptance rule as claim C19 words it: every vertex of the candidate C
\* has a tolerantly equal vertex of the sub-element T
acceptedAsStated(T, C) ==
    /\ Len(T.Vertexes) = Len(C.Vertexes)
    /\ Len(T.Vertexes) > 0
    /\ \A axis \in 1..3 : floatEqual(T.CenterOfMass[axis], C.CenterOfMass[axis])
    /\ floatEqual(T.Area, C.Area)
    /\ \A p \in 1..Len(C.Vertexes) : \E q \in 1..Len(T.Vertexes) :
          sameVertex(C.Vertexes[p], T.Vertexes[q])

\* C19: findElementInShape accepts a sub-element T for the candidate C exactly
\* when the vertex counts are equal and not zero, the centres of mass and the
\* areas are tolerantly equal, and every vertex of C has a tolerantly equal
\* vertex of T: it returns the first sub-element so accepted, None if none is.
C19_AcceptanceRule ==
    pc = "returned" =>
        LET accepted == {k \in 1..Len(FamilyList) : acceptedAsStated(FamilyList[k], anElement)}
        IN  /\ (found_element = None) = (accepted = {})
            /\ accepted # {} => found_element = anElement.ShapeType \o ToString(least(accepted))

(***************************************************************************)
(* The comparisons that are explored                                       *)
(***************************************************************************)
\* no call of matchFacesToTargetShape or findElementInShape is under way
Idle ==
    /\ ActiveDocument = [Part |-> [Shape |-> [Faces |-> FacesA]]]
    /\ ref_lists = <<>>
    /\ shape = [Faces |-> <<>>]
    /\ src_face_list = <<>>
    /\ mesh_face_list = <<>>
    /\ i = 0
    /\ j = 0
    /\ j_match_start = 0
    /\ matching = FALSE
    /\ candidate_mesh_faces = <<>>
    /\ successful_candidates = None
    /\ error = None
    /\ aShape = None
    /\ anElement = None
    /\ found_element = None
    /\ console = <<>>
    /\ calls = <<>>

InitCompare ==
    /\ Idle
    /\ vals \in Values \X Values \X Values
    /\ outcome = <<>>
    /\ NoAnalysis
    /\ NoMeshing
    /\ pc = "compare"

NextCompare == Compare

SpecCompare == InitCompare /\ [][NextCompare]_vars

\* C14: floatEqual is reflexive and symmetric: comparing a value with itself
\* gives true, and comparing a with b gives what comparing b with a gives.
C14_ReflexiveSymmetric ==
    pc = "compared" =>
        \A p \in 1..3, q \in 1..3 :
            /\ outcome[p][p].eq
            /\ outcome[p][q].eq = outcome[q][p].eq

\* two values that are equal by the relative tolerance only
C14_Witness ==
    /\ pc = "compared"
    /\ vals[1] # vals[2]
    /\ Abs(vals[1] - vals[2]) >= abstol
    /\ outcome[1][2].eq
    /\ outcome[2][1].eq
    /\ ~outcome[1][3].eq

\* C15: for every pair of values exactly one of K.__lt__, K.__eq__, K.__gt__
\* is true, compFn gives -1, 0, 1 accordingly, and the outcome is EQUAL
\* exactly when floatEqual of the two values is true.
C15_ExactlyOneOutcome ==
    pc = "compared" =>
        \A p \in 1..3, q \in 1..3 :
            LET r == outcome[p][q]
            IN  /\ Cardinality({o \in {"lt", "eq", "gt"} : r[o]}) = 1
                /\ r.compFn = (IF r.lt THEN -1 ELSE IF r.eq THEN 0 ELSE 1)
                /\ r.eq = floatEqual(vals[p], vals[q])

\* different values that compare EQUAL, and values that compare LESS and GREATER
C15_Witness ==
    /\ pc = "compared"
    /\ vals[1] < vals[2]
    /\ outcome[1][2].eq
    /\ outcome[1][3].lt
    /\ outcome[3][1].gt
    /\ outcome[1][3].compFn = -1

\* C20: the tolerant ordering is transitive: EQUAL and EQUAL give EQUAL, and
\* LESS followed by LESS or EQUAL never gives GREATER or EQUAL.
C20_Transitive ==
    pc = "compared" =>
        /\ (outcome[1][2].eq /\ outcome[2][3].eq) => outcome[1][3].eq
        /\ (outcome[1][2].lt /\ outcome[2][3].le) => ~outcome[1][3].ge

(***************************************************************************)
(* setActiveAnalysis and getActiveAnalysis                                 *)
(***************************************************************************)
\* the largest number of objects of the active document
MaxObjects == 4

\* an object of the document: an analysis (its Proxy is a _CfdAnalysis) with
\* its IsActiveAnalysis property, or another object, which has none
DocumentObjects ==
    {[Analysis |-> TRUE, IsActiveAnalysis |-> b] : b \in BOOLEAN}
        \cup {[Analysis |-> FALSE, IsActiveAnalysis |-> FALSE]}

\* the positions of the analysis objects
analyses(objs) == {k \in 1..Len(objs) : objs[k].Analysis}

\* no analysis object is deactivated
deactivated_none(objs) == objs

\* the loop of setActiveAnalysis: obj.IsActiveAnalysis = False for every analysis object
deactivated(objs) ==
    [k \in 1..Len(objs) |->
        IF objs[k].Analysis THEN [objs[k] EXCEPT !.IsActiveAnalysis = FALSE] ELSE objs[k]]

\* setActiveAnalysis(analysis), for an analysis object of the active document
SetActiveAnalysis ==
    /\ pc \in {"analysis", "returned"}
    /\ \E a \in analyses(Objects) :
        /\ Objects' = [deactivated(Objects) EXCEPT ![a].IsActiveAnalysis = TRUE]
        /\ analysis' = a
    /\ pc' = "analysis"
    /\ UNCHANGED <<matchVars, findVars, console, calls, cmpVars, active, meshVars>>

\* the object getActiveAnalysis returns: the first active analysis object, or None
firstActive(objs) ==
    LET act == {k \in analyses(objs) : objs[k].IsActiveAnalysis}
    IN  IF act = {} THEN 0 ELSE CHOOSE k \in act : \A m \in act : k <= m

\* getActiveAnalysis()
GetActiveAnalysis ==
    /\ pc = "analysis"
    /\ active' = firstActive(Objects)
    /\ pc' = "returned"
    /\ UNCHANGED <<matchVars, findVars, console, calls, cmpVars, Objects, analysis, meshVars>>

\* a document of up to MaxObjects objects, as it was loaded: any of its
\* analysis objects may be marked active
InitAnalysis ==
    /\ Idle
    /\ vals = <<>>
    /\ outcome = <<>>
    /\ NoMeshing
    /\ Objects \in SeqsUpTo(DocumentObjects, MaxObjects)
    /\ analysis = 0
    /\ active = 0
    /\ pc = "analysis"

NextAnalysis ==
    \/ SetActiveAnalysis
    \/ GetActiveAnalysis

SpecAnalysis == InitAnalysis /\ [][NextAnalysis]_vars

\* C30: once setActiveAnalysis has been called, at most one analysis object
\* has IsActiveAnalysis set, and what getActiveAnalysis returns is the
\* analysis passed to the most recent setActiveAnalysis call.
C30_OneActiveAnalysis ==
    analysis # 0 =>
        /\ Cardinality({k \in analyses(Objects) : Objects[k].IsActiveAnalysis}) <= 1
        /\ pc = "returned" => active = analysis

\* getActiveAnalysis returned the analysis that was set, which is not the
\* first analysis object of the document
C30_Witness ==
    /\ pc = "returned"
    /\ analysis # 0
    /\ active = analysis
    /\ \E k \in analyses(Objects) : k < analysis

(***************************************************************************)
(* CfdMeshTools.processRefinements, the gmsh branch.  Relative lengths are *)
(* counted in ten-thousandths, lengths of the part in millimetres.         *)
(***************************************************************************)
\* self.part_obj: the name of the object to mesh
part_obj == "Part"

\* self.clmax, in millimetres
clmax == 4

\* the relative length 1.0
unity == 10000

\* the relative length 0.01
hundredth == 100

\* the names of the mesh refinement objects, by position in mr_objs
RefinementName(k) == "MeshRefinement" \o ToString(k)

\* self.part_obj.Shape.isSame(ref.Shape): the two are one and the same shape;
\* each object of the document has a shape of its own
isSame(obj1, obj2) == obj1 = obj2

\* FemMeshTools.get_element(ref, elems), for the name of a face
get_element(ref, name) == getElement(ref.Shape, name)

\* FemMeshTools.get_vertexes_by_element(shape, ele_shape): the vertices of the element
get_vertexes_by_element(target, ele_shape) == ele_shape.Vertexes

\* search_ele_in_shape_to_mesh
search_ele_in_shape_to_mesh(sub) == ~isSame(part_obj, sub[1])

\* CfdTools.findElementInShape(self.part_obj.Shape, ele_shape)
foundInPart(sub) ==
    findElementInShape(getObject(part_obj).Shape, get_element(getObject(sub[1]), sub[2]))

\* variant: the name in the reference is kept when the element is not found
elems_keepsName(sub) ==
    IF search_ele_in_shape_to_mesh(sub) /\ foundInPart(sub).ele # None
    THEN foundInPart(sub).ele
    ELSE sub[2]

\* elems after the search: sub[1], the identifier found in the part, or None
elems(sub) ==
    IF search_ele_in_shape_to_mesh(sub) THEN foundInPart(sub).ele ELSE sub[2]

compoundWarning ==
    "GMSH could return unexpected meshes for a boolean split tools Compound. It is strongly recommended to extract the shape to mesh from the Compound and use this one.\n"

notFoundInPart(name) ==
    "One element of the meshregion " \o name \o " could not be found in the Part to mesh. It will be ignored.\n"

greaterThanUnity(name) ==
    "The meshregion: " \o name \o " should not use a relative length greater than unity.\n"

smallerThanHundredth(name) ==
    "The meshregion: " \o name \o " should not use a relative length smaller than 0.01.\n"

addedToAnother(el, name) ==
    "The element " \o el \o " of the mesh refinement " \o name \o " has been added to another mesh refinement.\n"

emptyReferenceList(name) ==
    "The meshregion: " \o name \o " is not used to create the mesh because the reference list is empty.\n"

zeroLength(name) ==
    "The meshregion: " \o name \o " is not used to create the mesh because the CharacteristicLength is 0.0 mm.\n"

\* mr_rellen after the two tests
mr_rellen(mr_obj) ==
    IF mr_obj.RelativeLength > unity THEN unity
    ELSE IF mr_obj.RelativeLength < hundredth THEN hundredth
    ELSE mr_obj.RelativeLength

\* the dictionary d after d[k] = v
assign(d, k, v) == [x \in DOMAIN d \cup {k} |-> IF x = k THEN v ELSE d[x]]

\* variant: the element length is assigned for every reference
length_assigned_always(map, el, mr_obj) == assign(map, el, mr_rellen(mr_obj) * clmax)

\* if elems not in self.ele_length_map: self.ele_length_map[elems] = mr_rellen*self.clmax
length_assigned(map, el, mr_obj) ==
    IF el \notin DOMAIN map THEN assign(map, el, mr_rellen(mr_obj) * clmax) ELSE map

\* what the body of the loop over the references writes for one reference
printedForReference(map, mr_obj, sub) ==
    (IF search_ele_in_shape_to_mesh(sub) THEN foundInPart(sub).printed ELSE <<>>)
    \o (IF elems(sub) = None THEN <<notFoundInPart(mr_obj.Name)>>
        ELSE IF elems(sub) \in DOMAIN map THEN <<addedToAnother(elems(sub), mr_obj.Name)>>
        ELSE IF mr_obj.RelativeLength > unity THEN <<greaterThanUnity(mr_obj.Name)>>
        ELSE IF mr_obj.RelativeLength < hundredth THEN <<smallerThanHundredth(mr_obj.Name)>>
        ELSE <<>>)

\* the branch is entered: the two dictionaries are emptied
GmshBegin ==
    /\ pc = "gmsh"
    /\ ele_length_map' = EmptyMap
    /\ ele_node_map' = EmptyMap
    /\ mr_id' = 0
    /\ sub_id' = 0
    /\ IF mr_objs = <<>>
       THEN /\ console' = console \o <<"  No mesh refinements">>
            /\ pc' = "meshed"
       ELSE /\ console' = console \o <<"  Mesh refinements found - getting elements">>
                            \o (IF getObject(part_obj).Shape.ShapeType = "Compound"
                                THEN <<compoundWarning>> ELSE <<>>)
            /\ pc' = "refine"
    /\ UNCHANGED <<matchVars, findVars, calls, cmpVars, analysisVars, mr_objs, cf_settings>>

\* a refinement with relative length zero or without references
GmshNotUsed ==
    /\ pc = "refine"
    /\ mr_id < Len(mr_objs)
    /\ LET mr_obj == mr_objs[mr_id + 1]
       IN  /\ mr_obj.RelativeLength = 0 \/ mr_obj.References = <<>>
           /\ console' = Append(console, IF mr_obj.RelativeLength # 0
                                         THEN emptyReferenceList(mr_obj.Name)
                                         ELSE zeroLength(mr_obj.Name))
    /\ mr_id' = mr_id + 1
    /\ UNCHANGED <<matchVars, findVars, calls, cmpVars, analysisVars, mr_objs, sub_id,
                   ele_length_map, ele_node_map, cf_settings, pc>>

\* the body of the loop over the references, for one reference
GmshReference ==
    /\ pc = "refine"
    /\ mr_id < Len(mr_objs)
    /\ LET mr_obj == mr_objs[mr_id + 1]
       IN  /\ mr_obj.RelativeLength # 0
           /\ mr_obj.References # <<>>
           /\ LET sub == mr_obj.References[sub_id + 1]
              IN  /\ console' = console \o printedForReference(ele_length_map, mr_obj, sub)
                  /\ ele_length_map' = IF elems(sub) = None THEN ele_length_map
                                       ELSE length_assigned(ele_length_map, elems(sub), mr_obj)
           /\ IF sub_id + 1 < Len(mr_obj.References)
              THEN /\ sub_id' = sub_id + 1
                   /\ UNCHANGED mr_id
              ELSE /\ sub_id' = 0
                   /\ mr_id' = mr_id + 1
    /\ UNCHANGED <<matchVars, findVars, calls, cmpVars, analysisVars, mr_objs,
                   ele_node_map, cf_settings, pc>>

\* the loop over self.ele_length_map that fills self.ele_node_map
GmshNodes ==
    /\ pc = "refine"
    /\ mr_id = Len(mr_objs)
    /\ ele_node_map' = [eleml \in DOMAIN ele_length_map |->
                           get_vertexes_by_element(getObject(part_obj).Shape,
                                                   get_element(getObject(part_obj), eleml))]
    /\ pc' = "meshed"
    /\ UNCHANGED <<matchVars, findVars, console, calls, cmpVars, analysisVars, mr_objs,
                   mr_id, sub_id, ele_length_map, cf_settings>>

(***************************************************************************)
(* The meshing passes with gmsh that are explored                          *)
(***************************************************************************)
\* the shape to mesh, a solid or a compound
PartShapes ==
    {[ShapeType |-> st, Solids |-> <<sA>>, Faces |-> FacesA, Edges |-> <<eA, eB>>,
      Vertexes |-> <<vA, vB>>] : st \in {"Solid", "Compound"}}

\* the shape of a second object: its first face is the third face of the
\* part, its second face is no face of the part
ToolShape == [ShapeType |-> "Shell", Solids |-> <<>>, Faces |-> <<FacesA[3], FacesC[1]>>,
              Edges |-> <<>>, Vertexes |-> <<>>]

GmshDocuments == {[Part |-> [Shape |-> ps], Tool |-> [Shape |-> ToolShape]] : ps \in PartShapes}

\* references to faces of the part and of the second object
GmshRefs == {<<"Part", "Face3">>, <<"Tool", "Face1">>, <<"Tool", "Face2">>}

\* relative lengths: 0, 0.005, 0.5 and 2.0
RelLengths == {0, 50, 5000, 20000}

\* the lists of mesh refinement objects with the reference lists rl
Refinements(RL) ==
    {[k \in 1..Len(rl) |-> [Name |-> RefinementName(k), RelativeLength |-> rel[k],
                            References |-> rl[k]]] :
        rl \in RL, rel \in [1..MaxGroups -> RelLengths]}

InitGmsh ==
    /\ ActiveDocument \in GmshDocuments
    /\ mr_objs \in Refinements(RefLists(GmshRefs)) \cup {<<>>}
    /\ mr_id = 0
    /\ sub_id = 0
    /\ ele_length_map = EmptyMap
    /\ ele_node_map = EmptyMap
    /\ cf_settings = EmptyMap
    /\ ref_lists = <<>>
    /\ shape = [Faces |-> <<>>]
    /\ src_face_list = <<>>
    /\ mesh_face_list = <<>>
    /\ i = 0
    /\ j = 0
    /\ j_match_start = 0
    /\ matching = FALSE
    /\ candidate_mesh_faces = <<>>
    /\ successful_candidates = None
    /\ error = None
    /\ aShape = None
    /\ anElement = None
    /\ found_element = None
    /\ console = <<>>
    /\ calls = <<>>
    /\ vals = <<>>
    /\ outcome = <<>>
    /\ NoAnalysis
    /\ pc = "gmsh"

NextGmsh ==
    \/ GmshBegin
    \/ GmshNotUsed
    \/ GmshReference
    \/ GmshNodes

SpecGmsh == InitGmsh /\ [][NextGmsh]_vars

\* the references of the refinements that are used: (position in mr_objs, position in References)
usedReferences ==
    {kp \in (1..Len(mr_objs)) \X (1..MaxRefs + 1) :
        /\ mr_objs[kp[1]].RelativeLength # 0
        /\ kp[2] <= Len(mr_objs[kp[1]].References)}

\* the references of all refinements
allReferences ==
    {kp \in (1..Len(mr_objs)) \X (1..MaxRefs + 1) : kp[2] <= Len(mr_objs[kp[1]].References)}

referenceAt(kp) == mr_objs[kp[1]].References[kp[2]]

\* the element of the part that the reference at kp names: the one named, for
\* a reference to the part itself, and otherwise the first face of the part
\* with the geometry of the referenced face, None if there is none
named(kp) ==
    LET sub == referenceAt(kp)
        faces == getObject(part_obj).Shape.Faces
        hits == {k \in 1..Len(faces) :
                    isSameGeometry(faces[k], getElement(getObject(sub[1]).Shape, sub[2]))}
    IN  IF sub[1] = part_obj THEN sub[2]
        ELSE IF hits = {} THEN None
        ELSE FaceName(least(hits))

\* kp comes before or is op, in mr_objs and reference order
notAfter(kp, op) == kp[1] < op[1] \/ (kp[1] = op[1] /\ kp[2] <= op[2])

\* C26: when the gmsh branch has run, the element length map has an entry for
\* exactly the elements of the references of the used refinements that are in
\* the part (a reference whose element is not found adds none, the references
\* and refinements after it are processed), one "could not be found" message
\* is written for every reference that is not found, and nothing is raised.
C26_UnfoundIsDropped ==
    pc = "meshed" =>
        LET unfound == {kp \in usedReferences : named(kp) = None}
        IN  /\ DOMAIN ele_length_map = {named(kp) : kp \in usedReferences \ unfound}
            /\ \A k \in 1..Len(mr_objs) :
                   count(console, notFoundInPart(mr_objs[k].Name))
                       = Cardinality({kp \in unfound : kp[1] = k})
            /\ mr_id = Len(mr_objs)
            /\ error = None

\* a reference that is not found, and a later reference, of the same or of a
\* later refinement, whose element has its length
C26_Witness ==
    /\ pc = "meshed"
    /\ \E kp \in usedReferences, op \in usedReferences :
          /\ kp # op
          /\ notAfter(kp, op)
          /\ named(kp) = None
          /\ named(op) \in DOMAIN ele_length_map
          /\ count(console, notFoundInPart(mr_objs[kp[1]].Name)) = 1

\* the references among refs that name the element el
naming(refs, el) == {kp \in refs : named(kp) = el}

first(kps) == CHOOSE kp \in kps : \A op \in kps : notAfter(kp, op)

\* the length of the element el is the one the first of the references refs
\* that name it gives, and every later one of them is reported
assignedOnceAmong(refs, el) ==
    /\ el \in DOMAIN ele_length_map
    /\ ele_length_map[el] = mr_rellen(mr_objs[first(naming(refs, el))[1]]) * clmax
    /\ \A k \in 1..Len(mr_objs) :
           count(console, addedToAnother(el, mr_objs[k].Name))
               = Cardinality({kp \in naming(refs, el) : kp[1] = k /\ kp # first(naming(refs, el))})

\* C28 as stated: the first refinement that names an element sets its length,
\* and every later reference to the element is reported and changes nothing.
C28_FirstNamingSets ==
    pc = "meshed" =>
        \A el \in {named(kp) : kp \in allReferences} \ {None} :
            assignedOnceAmong(allReferences, el)

\* C28: the first reference that names an element, among the references of
\* the refinements whose relative length is not zero, sets its length, and
\* every later such reference is reported and changes nothing.
C28_FirstUsedSets ==
    pc = "meshed" =>
        /\ \A el \in {named(kp) : kp \in usedReferences} \ {None} :
               assignedOnceAmong(usedReferences, el)
        /\ DOMAIN ele_length_map \subseteq {named(kp) : kp \in usedReferences}

\* an element named by two refinements with different lengths, the first of
\* which is used
C28_Witness ==
    /\ pc = "meshed"
    /\ Len(mr_objs) = 2
    /\ mr_rellen(mr_objs[1]) # mr_rellen(mr_objs[2])
    /\ \E el \in DOMAIN ele_length_map :
          /\ naming(usedReferences, el) = {<<1, 1>>, <<2, 1>>}
          /\ count(console, addedToAnother(el, mr_objs[2].Name)) = 1

(***************************************************************************)
(* CfdMeshTools.processRefinements, the cfMesh branch.  The lengths of the *)
(* refinement objects are in millimetres; the lengths written to the       *)
(* settings are counted in micrometres.  The surface file written for each *)
(* used refinement and the settings of snappyHexMesh, which this branch    *)
(* empties, are not read by it and are left out.                           *)
(***************************************************************************)
\* self.scale: 0.001 metres, or 1000 micrometres, to the millimetre
scale == 1000

\* the relative length 0.001
thousandth == 10

\* the expansion ratios 1.0 and 1.2, in hundredths
leastExpansion == 100

mostExpansion == 120

Min(a, b) == IF a <= b THEN a ELSE b

\* self.mesh_obj.ShapeFaceNames, as set by __init__: "face0", "face1", ...
ShapeFaceNames ==
    [k \in 1..Len(getObject(part_obj).Shape.Faces) |-> "face" \o ToString(k - 1)]

\* the refinement asks for boundary layers on its faces
layered(mr_obj) == mr_obj.NumberLayers > 1 /\ ~mr_obj.Internal

\* variant: a refinement without boundary layers has no group
RECURSIVE region_face_lists_skipping(_)
region_face_lists_skipping(objs) ==
    IF objs = <<>> THEN <<>>
    ELSE (IF layered(Head(objs)) THEN <<Head(objs).References>> ELSE <<>>)
         \o region_face_lists_skipping(Tail(objs))

\* region_face_lists: one group for every refinement, in the order of
\* mr_objs, empty unless the refinement asks for boundary layers
region_face_lists(objs) ==
    [k \in 1..Len(objs) |-> IF layered(objs[k]) THEN objs[k].References ELSE <<>>]

smallerThanThousandth(name) ==
    "The meshregion: " \o name \o " should not use a relative length smaller than 0.001.\n"

notUsed(name) ==
    "The meshregion: " \o name \o " is not used to create the mesh because the CharacteristicLength is 0.0 mm or the reference list is empty.\n"

\* mr_rellen after the two tests of the cfMesh branch
cf_rellen(mr_obj) ==
    IF mr_obj.RelativeLength > unity THEN unity
    ELSE IF mr_obj.RelativeLength < thousandth THEN thousandth
    ELSE mr_obj.RelativeLength

\* what is written for one refinement
printedForRefinement(mr_obj) ==
    IF mr_obj.RelativeLength = 0 THEN <<notUsed(mr_obj.Name)>>
    ELSE IF mr_obj.RelativeLength > unity THEN <<greaterThanUnity(mr_obj.Name)>>
    ELSE IF mr_obj.RelativeLength < thousandth THEN <<smallerThanThousandth(mr_obj.Name)>>
    ELSE <<>>

\* the target faces, 0-based, for which bl_matched_faces has an entry of the group id
facesMatched(bl_matched_faces, id) ==
    {f \in 0..(Len(bl_matched_faces) - 1) :
        \E jj \in 1..Len(bl_matched_faces[f + 1]) : bl_matched_faces[f + 1][jj][1] = id}

\* the boundary layer settings of a refinement
layerSettings(mr_obj) ==
    [NumberLayers |-> mr_obj.NumberLayers,
     ExpansionRatio |-> Min(mostExpansion, Max(leastExpansion, mr_obj.ExpansionRatio)),
     FirstLayerHeight |-> scale * mr_obj.FirstLayerHeight]

\* cf_settings['BoundaryLayers'] after the two loops over bl_matched_faces
BoundaryLayers(bl, id, mr_obj, bl_matched_faces) ==
    LET sfN == {ShapeFaceNames[f + 1] : f \in facesMatched(bl_matched_faces, id)}
    IN  [n \in DOMAIN bl \cup sfN |-> IF n \in sfN THEN layerSettings(mr_obj) ELSE bl[n]]

\* the branch is entered: the settings are emptied, the groups of references
\* are made and matchFacesToTargetShape is called
CfBegin ==
    /\ pc = "cfmesh"
    /\ cf_settings' = [MeshRegions |-> EmptyMap, BoundaryLayers |-> EmptyMap,
                       InternalRegions |-> EmptyMap]
    /\ mr_id' = 0
    /\ IF mr_objs = <<>>
       THEN /\ console' = console \o <<"  No mesh refinement">>
            /\ pc' = "meshed"
            /\ UNCHANGED <<ref_lists, shape>>
       ELSE /\ console' = console \o <<"  Mesh refinements - getting the elements">>
            /\ ref_lists' = region_face_lists(mr_objs)
            /\ shape' = getObject(part_obj).Shape
            /\ pc' = "match"
    /\ UNCHANGED <<ActiveDocument, src_face_list, mesh_face_list, i, j, j_match_start, matching,
                   candidate_mesh_faces, successful_candidates, error, findVars, calls, cmpVars,
                   analysisVars, mr_objs, sub_id, ele_length_map, ele_node_map>>

\* the body of the second loop over mr_objs, for one refinement
CfRefinement ==
    /\ pc = "done"
    /\ mr_id < Len(mr_objs)
    /\ LET mr_obj == mr_objs[mr_id + 1]
       IN  /\ console' = console \o printedForRefinement(mr_obj)
           /\ cf_settings' =
                 IF mr_obj.RelativeLength = 0 THEN cf_settings
                 ELSE [MeshRegions |->
                           IF ~mr_obj.Internal
                           THEN assign(cf_settings.MeshRegions, mr_obj.Name,
                                       [RelativeLength |-> cf_rellen(mr_obj) * clmax * scale,
                                        RefinementThickness |-> scale * mr_obj.RefinementThickness])
                           ELSE cf_settings.MeshRegions,
                       BoundaryLayers |->
                           IF layered(mr_obj)
                           THEN BoundaryLayers(cf_settings.BoundaryLayers, mr_id, mr_obj,
                                               successful_candidates)
                           ELSE cf_settings.BoundaryLayers,
                       InternalRegions |->
                           IF mr_obj.Internal
                           THEN assign(cf_settings.InternalRegions, mr_obj.Name,
                                       [RelativeLength |-> cf_rellen(mr_obj) * clmax * scale])
                           ELSE cf_settings.InternalRegions]
    /\ mr_id' = mr_id + 1
    /\ pc' = IF mr_id + 1 = Len(mr_objs) THEN "meshed" ELSE pc
    /\ UNCHANGED <<matchVars, findVars, calls, cmpVars, analysisVars, mr_objs, sub_id,
                   ele_length_map, ele_node_map>>

(***************************************************************************)
(* The meshing passes with cfMesh that are explored                        *)
(***************************************************************************)
\* the settings of a refinement: with boundary layers; with boundary layers
\* and the relative length 0; without boundary layers and with the relative
\* length 2.0; internal and with the relative length 0.0005
CfProfiles ==
    {[NumberLayers |-> 3, Internal |-> FALSE, RelativeLength |-> 5000, ExpansionRatio |-> 150,
      FirstLayerHeight |-> 2, RefinementThickness |-> 1],
     [NumberLayers |-> 3, Internal |-> FALSE, RelativeLength |-> 0, ExpansionRatio |-> 110,
      FirstLayerHeight |-> 2, RefinementThickness |-> 1],
     [NumberLayers |-> 1, Internal |-> FALSE, RelativeLength |-> 20000, ExpansionRatio |-> 110,
      FirstLayerHeight |-> 0, RefinementThickness |-> 1],
     [NumberLayers |-> 3, Internal |-> TRUE, RelativeLength |-> 5, ExpansionRatio |-> 90,
      FirstLayerHeight |-> 2, RefinementThickness |-> 0]}

\* the lists of mesh refinement objects with the reference lists rl
CfRefinements(RL) ==
    {[k \in 1..Len(rl) |->
        [Name |-> RefinementName(k), References |-> rl[k],
         NumberLayers |-> prof[k].NumberLayers, Internal |-> prof[k].Internal,
         RelativeLength |-> prof[k].RelativeLength, ExpansionRatio |-> prof[k].ExpansionRatio,
         FirstLayerHeight |-> prof[k].FirstLayerHeight,
         RefinementThickness |-> prof[k].RefinementThickness]] :
        rl \in RL, prof \in [1..MaxGroups -> CfProfiles]}

InitCfMesh ==
    /\ ActiveDocument = [Part |-> [Shape |-> [Faces |-> FacesA]]]
    /\ mr_objs \in CfRefinements(RefLists(Refs(ActiveDocument))) \cup {<<>>}
    /\ mr_id = 0
    /\ sub_id = 0
    /\ ele_length_map = EmptyMap
    /\ ele_node_map = EmptyMap
    /\ cf_settings = EmptyMap
    /\ ref_lists = <<>>
    /\ shape = [Faces |-> <<>>]
    /\ src_face_list = <<>>
    /\ mesh_face_list = <<>>
    /\ i = 0
    /\ j = 0
    /\ j_match_start = 0
    /\ matching = FALSE
    /\ candidate_mesh_faces = <<>>
    /\ successful_candidates = None
    /\ error = None
    /\ aShape = None
    /\ anElement = None
    /\ found_element = None
    /\ console = <<>>
    /\ calls = <<>>
    /\ vals = <<>>
    /\ outcome = <<>>
    /\ NoAnalysis
    /\ pc = "cfmesh"

NextCfMesh ==
    \/ CfBegin
    \/ Resolve
    \/ SweepStep
    \/ Confirm
    \/ CfRefinement

SpecCfMesh == InitCfMesh /\ [][NextCfMesh]_vars

\* the refinement at position k of mr_objs (from 1) has a reference confirmed
\* for the target face f (from 0)
confirmedFor(k, f) ==
    \E jj \in 1..Len(successful_candidates[f + 1]) :
        /\ successful_candidates[f + 1][jj][1] = k - 1
        /\ \E p \in 1..Len(mr_objs[k].References) :
              mr_objs[k].References[p] = successful_candidates[f + 1][jj][2]

\* the messages that the cfMesh branch writes whatever the matching gives
routine ==
    {"  Mesh refinements - getting the elements"}
        \cup UNION {{greaterThanUnity(mr_objs[k].Name), smallerThanThousandth(mr_objs[k].Name),
                     notUsed(mr_objs[k].Name)} : k \in 1..Len(mr_objs)}

\* the refinements with a reference in the result for the target face f
regionsOf(f) ==
    {successful_candidates[f + 1][jj][1] : jj \in 1..Len(successful_candidates[f + 1])}

\* C27: when the result of matchFacesToTargetShape has references of more than
\* one refinement for a target face, the cfMesh branch writes a warning about
\* it: a message that it does not write anyway.
C27_MultiplicityReported ==
    pc = "meshed" /\ mr_objs # <<>> =>
        \A f \in 0..(Len(successful_candidates) - 1) :
            Cardinality(regionsOf(f)) > 1 => \E p \in 1..Len(console) : console[p] \notin routine

\* C29: the groups passed to matchFacesToTargetShape are one per refinement,
\* in the order of mr_objs and empty for a refinement without boundary layers,
\* and when the branch has run cf_settings['BoundaryLayers'] has the key
\* 'face<k>' exactly for the target faces k for which a refinement with
\* NumberLayers > 1, not Internal and a non-zero RelativeLength has a
\* reference in the result under its position in mr_objs.
C29_LayersByPosition ==
    /\ pc \in {"match", "sweep", "done", "meshed"} /\ mr_objs # <<>> =>
          /\ Len(ref_lists) = Len(mr_objs)
          /\ \A k \in 1..Len(mr_objs) :
                ref_lists[k] = (IF mr_objs[k].NumberLayers > 1 /\ ~mr_objs[k].Internal
                                THEN mr_objs[k].References ELSE <<>>)
    /\ pc = "meshed" /\ mr_objs # <<>> =>
          \A f \in 0..(Len(getObject(part_obj).Shape.Faces) - 1) :
              ("face" \o ToString(f)) \in DOMAIN cf_settings.BoundaryLayers
                  <=> \E k \in 1..Len(mr_objs) :
                         /\ mr_objs[k].NumberLayers > 1
                         /\ ~mr_objs[k].Internal
                         /\ mr_objs[k].RelativeLength # 0
                         /\ confirmedFor(k, f)

\* a refinement with boundary layers that comes after one without has its
\* face among the boundary layers, and a face matched only by a refinement
\* with the relative length 0 is not among them
C29_Witness ==
    /\ pc = "meshed"
    /\ Len(mr_objs) = 2
    /\ mr_objs[1].NumberLayers = 1
    /\ mr_objs[1].References # <<>>
    /\ confirmedFor(2, 2)
    /\ "face2" \in DOMAIN cf_settings.BoundaryLayers
    /\ "face0" \notin DOMAIN cf_settings.BoundaryLayers

====
